---- MODULE Spec2Model ----
(***************************************************************************)
(* PricePilot: the history store (prices.db: product, pricehistory), the   *)
(* registry (tracker.db: products, settings), the batch persistence step   *)
(* save_to_db with its price-drop alerts, orphan reconciliation, the       *)
(* cascade of delete_url, and the per-site fetch loops of sites.amazon,    *)
(* sites.ebay and sites.etsy.                                              *)
(***************************************************************************)
EXTENDS Integers, FiniteSets, Sequences, Bags, TLC

\* ------------------------------------------------------------------ bounds
\* Last calendar day the clock reaches (days are 1..MaxDay).
MaxDay == 3
\* Results processed by save_to_db over a behaviour, all calls together.
MaxRows == 3
\* The same two for the specification of two concurrent save_to_db processes.
ConcDay == 2
ConcRows == 2
\* max_retries values tried for sites.amazon.scrape_product are 1..MaxRetries.
MaxRetries == 3
\* Batches (scrape_all) run over a behaviour, and the last day they reach.
MaxBatches == 2
BatchDay == 2

\* ----------------------------------------------------------------- domains
URLs == {"u1", "u2"}
ConcURLs == {"u1"}
Names == {"Widget"}
Prices == {1, 2}
\* Python None in a price: the nullable pricehistory.price, and price_val of 'NA'.
NULL == 0 - 1
\* The (price, availability) pairs of a result: a give-up sentinel ('NA',
\* 'Unknown'), a result without availability, or a price.
Scraped == {<<NULL, "Unknown">>, <<NULL, "">>} \cup {<<p, "In Stock">> : p \in Prices}
\* Processes that may each be inside save_to_db (the scheduler and a --once run).
Runs == {"r1", "r2"}
ProductIds == 1..(Cardinality(URLs) + 1)

VARIABLES
    \* tracker.db
    tracked,        \* urls of the products table
    email_alerts,   \* settings['email_alerts']
    \* prices.db
    product,        \* set of rows [id, name, url]
    pricehistory,   \* bag of rows [product_id, date, price, availability]
    \* environment
    now,            \* datetime.now().date()
    sent,           \* bag of the alerts delivered by send_price_drop_alert
    rows_total,     \* results processed so far
    \* save_to_db, one activation per process
    pc, row, prod_id, today, prev_row, existing, alerted, email_enabled,
    run_sent,       \* bag of the alert keys delivered in the activation
    skipped,        \* the alert keys found in alerted, and so not sent again
    outcome,        \* how the last activation ended
    \* delete_url and cleanup_orphaned_data
    del_url, tracked_urls,
    \* sites.<site>.scrape_product
    f,
    \* scrape_all
    b,
    \* sites.<site>.extract_price
    px

run_vars == <<pc, row, prod_id, today, prev_row, existing, alerted, email_enabled,
              run_sent, skipped, outcome>>
store_vars == <<tracked, email_alerts, product, pricehistory, now, sent, rows_total,
                run_vars, del_url, tracked_urls>>
vars == <<store_vars, f, b, px>>

\* ------------------------------------------------------- prices.db: product
\* INTEGER PRIMARY KEY without AUTOINCREMENT: the next rowid is max(id) + 1.
NextProductId(prod) ==
    IF prod = {} THEN 1
    ELSE (CHOOSE i \in {p.id : p \in prod} : \A p \in prod : p.id <= i) + 1

\* Mutant of UpsertProduct: INSERT OR REPLACE, a known url gets a new row and id.
UpsertProductReplaces(prod, name, url) ==
    {p \in prod : p.url # url}
        \cup {[id |-> (IF prod = {} THEN 1
                       ELSE (CHOOSE i \in {p.id : p \in prod} :
                               \A p \in prod : p.id <= i) + 1),
               name |-> name, url |-> url]}

\* sqlite_insert(Product).on_conflict_do_update(index_elements=['url'], set_={'name': ...})
UpsertProduct(prod, name, url) ==
    IF \E p \in prod : p.url = url
    THEN {IF p.url = url THEN [p EXCEPT !.name = name] ELSE p : p \in prod}
    ELSE prod \cup {[id |-> NextProductId(prod), name |-> name, url |-> url]}

\* select(Product).where(Product.url == url): the matching rows
ProductByUrl(prod, url) == {p \in prod : p.url = url}

\* --------------------------------------------------- prices.db: pricehistory
Rows(ph) == BagToSet(ph)

\* price_val = float(row['price']) if row['price'] not in (None, '', 'NA') else None
PriceVal(price) == IF price = NULL THEN NULL ELSE price

\* Mutant of PreviousObservation: date <= day in the place of date < day.
PreviousObservationUpToToday(ph, pid, day) ==
    LET cand == {x \in BagToSet(ph) : x.product_id = pid /\ x.date <= day}
    IN  IF cand = {} THEN {}
        ELSE {CHOOSE x \in cand : \A y \in cand : y.date <= x.date}

\* select(PriceHistory).where(product_id == pid, date < day).order_by(date.desc()).first()
\* as a set: empty for None, else the one row returned.
PreviousObservation(ph, pid, day) ==
    LET cand == {x \in Rows(ph) : x.product_id = pid /\ x.date < day}
    IN  IF cand = {} THEN {}
        ELSE {CHOOSE x \in cand : \A y \in cand : y.date <= x.date}

\* Mutant of ExistingObservation: the existence check finds nothing.
ExistingObservationNever(ph, pid, day) == FALSE

\* select(PriceHistory).where(product_id == pid, date == day).scalar() is not None
ExistingObservation(ph, pid, day) ==
    \E x \in Rows(ph) : x.product_id = pid /\ x.date = day

\* Mutant of UniqueViolation: the table has no unique constraint.
NoUniqueConstraint(ph, pid, day) == FALSE

\* UniqueConstraint('product_id', 'date'): would inserting (pid, day) violate it
UniqueViolation(ph, pid, day) ==
    \E x \in Rows(ph) : x.product_id = pid /\ x.date = day

\* Mutant of InsertObservation: a result without a price is not stored.
InsertObservationSkipsUndetermined(ph, pid, day, price, availability) ==
    IF price = NULL THEN ph
    ELSE ph (+) SetToBag({[product_id |-> pid, date |-> day, price |-> price,
                           availability |-> availability]})

\* Mutant of InsertObservation: the insert replaces the product's earlier rows.
InsertObservationReplaces(ph, pid, day, price, availability) ==
    LET keep == {x \in Rows(ph) : x.product_id # pid}
    IN  [x \in keep |-> ph[x]] (+)
        SetToBag({[product_id |-> pid, date |-> day, price |-> price,
                   availability |-> availability]})

\* session.add(PriceHistory(...)); session.commit(), the constraint already passed
InsertObservation(ph, pid, day, price, availability) ==
    ph (+) SetToBag({[product_id |-> pid, date |-> day, price |-> price,
                      availability |-> availability]})

\* Mutant of DeleteHistoryOf: the delete matches no row.
DeleteHistoryOfNothing(ph, ids) == ph

\* delete(PriceHistory).where(PriceHistory.product_id.in_(ids))
DeleteHistoryOf(ph, ids) ==
    LET keep == {x \in Rows(ph) : x.product_id \notin ids}
    IN  [x \in keep |-> ph[x]]

\* ------------------------------------------------------------ price drop alert
\* Mutant of ShouldAlert: price_val is not tested for None, and <= for <.
ShouldAlertUnguarded(enabled, prev, price_val) ==
    /\ enabled
    /\ prev # {}
    /\ \A p \in prev : p.price # NULL /\ price_val <= p.price

\* the condition of the alert branch
ShouldAlert(enabled, prev, price_val) ==
    /\ enabled
    /\ prev # {}
    /\ \A p \in prev : p.price # NULL /\ price_val # NULL /\ price_val < p.price

\* alert_key = (prod_id, prev_row.price, price_val)
AlertKey(pid, prev, price_val) ==
    <<pid, (CHOOSE p \in prev : TRUE).price, price_val>>

\* What send_price_drop_alert does with one call: the mail is delivered; or it is
\* not and the function returns (credentials missing, SMTP failure caught); or
\* the function raises (int() of a malformed EMAIL_PORT).
SendOutcomes == {"delivered", "swallowed", "raised"}

\* Mutant of AlertedAfter: the key is never added to alerted.
AlertedAfterForgets(keys, key, o) == keys

\* try: send_price_drop_alert(...); alerted.add(alert_key) / except: print
AlertedAfter(keys, key, o) == IF o = "raised" THEN keys ELSE keys \cup {key}

\* The mail of one alert, with the product, the day and the previous
\* observation's date it was computed from.
Alert(pid, url, name, prev, price_val, day) ==
    [product_id |-> pid, url |-> url, product_name |-> name,
     old_price |-> (CHOOSE p \in prev : TRUE).price, new_price |-> price_val,
     prev_date |-> (CHOOSE p \in prev : TRUE).date, day |-> day]

\* clean_availability: an empty or missing availability becomes 'Unknown'
clean_availability(avail) == IF avail = "" THEN "Unknown" ELSE avail

\* ------------------------------------------------------------------ save_to_db
NoRow == [url |-> "-", product_name |-> "-", price |-> NULL, availability |-> "-"]

\* The locals of the loop body, as they are outside an activation.
ResetLocals(r) ==
    /\ row' = [row EXCEPT ![r] = NoRow]
    /\ prod_id' = [prod_id EXCEPT ![r] = 0]
    /\ today' = [today EXCEPT ![r] = 0]
    /\ prev_row' = [prev_row EXCEPT ![r] = {}]
    /\ existing' = [existing EXCEPT ![r] = FALSE]

\* The function is entered: alerted = set(), email_enabled = get_email_alerts().
SaveStart(r) ==
    /\ pc[r] = "idle"
    /\ alerted' = [alerted EXCEPT ![r] = {}]
    /\ run_sent' = [run_sent EXCEPT ![r] = EmptyBag]
    /\ skipped' = [skipped EXCEPT ![r] = {}]
    /\ email_enabled' = [email_enabled EXCEPT ![r] = email_alerts]
    /\ outcome' = [outcome EXCEPT ![r] = "running"]
    /\ pc' = [pc EXCEPT ![r] = "loop"]
    /\ UNCHANGED <<tracked, email_alerts, product, pricehistory, now, sent,
                   rows_total, row, prod_id, today, prev_row, existing, del_url,
                   tracked_urls>>

\* The function is left, by return or by an exception.
Leave(r, how) ==
    /\ pc' = [pc EXCEPT ![r] = "idle"]
    /\ outcome' = [outcome EXCEPT ![r] = how]
    /\ alerted' = [alerted EXCEPT ![r] = {}]
    /\ run_sent' = [run_sent EXCEPT ![r] = EmptyBag]
    /\ skipped' = [skipped EXCEPT ![r] = {}]
    /\ ResetLocals(r)

\* The process running save_to_db is stopped (signal, kill, power loss) at
\* any statement: what the statements before it committed stays stored.
Abort(r) ==
    /\ pc[r] # "idle"
    /\ Leave(r, "aborted")
    /\ UNCHANGED <<tracked, email_alerts, product, pricehistory, now, sent,
                   rows_total, email_enabled, del_url, tracked_urls>>

\* The results are exhausted: the final commit, and the function returns.
SaveReturn(r) ==
    /\ pc[r] = "loop"
    /\ Leave(r, "returned")
    /\ UNCHANGED <<tracked, email_alerts, product, pricehistory, now, sent,
                   rows_total, email_enabled, del_url, tracked_urls>>

\* --- the loop body of save_to_db, a statement at a time
\* for row in results: the next result is cleaned and its product upserted and
\* committed. The result is any scraped row; NextProductId stays within ProductIds.
UpsertRow(r, max_rows, urls) ==
    /\ pc[r] = "loop"
    /\ rows_total < max_rows
    /\ rows_total' = rows_total + 1
    /\ \E u \in urls, n \in Names, v \in Scraped :
        /\ (ProductByUrl(product, u) = {} => NextProductId(product) \in ProductIds)
        /\ row' = [row EXCEPT ![r] = [url |-> u, product_name |-> n, price |-> v[1],
                                      availability |-> clean_availability(v[2])]]
        /\ product' = UpsertProduct(product, n, u)
    /\ pc' = [pc EXCEPT ![r] = "getid"]
    /\ UNCHANGED <<tracked, email_alerts, pricehistory, now, sent, prod_id, today,
                   prev_row, existing, alerted, email_enabled, run_sent, skipped,
                   outcome, del_url, tracked_urls>>

\* prod_id = select(Product).where(url == row['url']).scalar_one().id
GetId(r) ==
    /\ pc[r] = "getid"
    /\ LET found == ProductByUrl(product, row[r].url)
       IN  IF found = {}
           THEN Leave(r, "NoResultFound")
           ELSE /\ prod_id' = [prod_id EXCEPT ![r] = (CHOOSE p \in found : TRUE).id]
                /\ pc' = [pc EXCEPT ![r] = "prev"]
                /\ UNCHANGED <<row, today, prev_row, existing, alerted, run_sent,
                               skipped, outcome>>
    /\ UNCHANGED <<tracked, email_alerts, product, pricehistory, now, sent,
                   rows_total, email_enabled, del_url, tracked_urls>>

\* today = datetime.now().date(); prev_row = the previous observation before today
ReadPrevious(r) ==
    /\ pc[r] = "prev"
    /\ today' = [today EXCEPT ![r] = now]
    /\ prev_row' = [prev_row EXCEPT ![r] = PreviousObservation(pricehistory, prod_id[r], now)]
    /\ pc' = [pc EXCEPT ![r] = "exists"]
    /\ UNCHANGED <<tracked, email_alerts, product, pricehistory, now, sent,
                   rows_total, row, prod_id, existing, alerted, email_enabled,
                   run_sent, skipped, outcome, del_url, tracked_urls>>

\* existing = the observation of (prod_id, today), if any
CheckExisting(r) ==
    /\ pc[r] = "exists"
    /\ existing' = [existing EXCEPT ![r] = ExistingObservation(pricehistory, prod_id[r], today[r])]
    /\ pc' = [pc EXCEPT ![r] = "insert"]
    /\ UNCHANGED <<tracked, email_alerts, product, pricehistory, now, sent,
                   rows_total, row, prod_id, today, prev_row, alerted, email_enabled,
                   run_sent, skipped, outcome, del_url, tracked_urls>>

\* if existing.scalar() is None: add and commit (the constraint may reject the
\* insert: IntegrityError leaves the function); else: the duplicate is skipped.
InsertOrSkip(r) ==
    /\ pc[r] = "insert"
    /\ IF existing[r]
       THEN /\ pc' = [pc EXCEPT ![r] = "alert"]
            /\ UNCHANGED <<pricehistory, row, prod_id, today, prev_row, existing,
                           alerted, run_sent, skipped, outcome>>
       ELSE IF UniqueViolation(pricehistory, prod_id[r], today[r])
            THEN /\ Leave(r, "IntegrityError")
                 /\ UNCHANGED pricehistory
            ELSE /\ pricehistory' = InsertObservation(pricehistory, prod_id[r], today[r],
                                        PriceVal(row[r].price), row[r].availability)
                 /\ pc' = [pc EXCEPT ![r] = "alert"]
                 /\ UNCHANGED <<row, prod_id, today, prev_row, existing, alerted,
                                run_sent, skipped, outcome>>
    /\ UNCHANGED <<tracked, email_alerts, product, now, sent, rows_total,
                   email_enabled, del_url, tracked_urls>>

\* The price drop alert of one row, then the next iteration.
PriceDropAlert(r) ==
    /\ pc[r] = "alert"
    /\ LET price_val == PriceVal(row[r].price)
           key == AlertKey(prod_id[r], prev_row[r], price_val)
       IN  IF ShouldAlert(email_enabled[r], prev_row[r], price_val)
           THEN IF key \notin alerted[r]
                THEN \E o \in SendOutcomes :
                       /\ sent' = IF o = "delivered"
                                  THEN sent (+) SetToBag({Alert(prod_id[r], row[r].url,
                                          row[r].product_name, prev_row[r], price_val,
                                          today[r])})
                                  ELSE sent
                       /\ run_sent' = [run_sent EXCEPT ![r] =
                                         IF o = "delivered" THEN @ (+) SetToBag({key}) ELSE @]
                       /\ alerted' = [alerted EXCEPT ![r] = AlertedAfter(@, key, o)]
                       /\ UNCHANGED skipped
                ELSE /\ skipped' = [skipped EXCEPT ![r] = @ \cup {key}]
                     /\ UNCHANGED <<sent, run_sent, alerted>>
           ELSE UNCHANGED <<sent, run_sent, alerted, skipped>>
    /\ pc' = [pc EXCEPT ![r] = "loop"]
    /\ UNCHANGED <<tracked, email_alerts, product, pricehistory, now, rows_total, row,
                   prod_id, today, prev_row, existing, email_enabled, outcome,
                   del_url, tracked_urls>>

\* --- the loop body of save_to_db as one step, no other writer in between:
\* upsert, product id, previous observation, existence check, insert or skip,
\* price drop alert; for the result (u, n, v) and the outcome o of the send.
ProcessRow(r, u, n, v, o) ==
        LET product1  == UpsertProduct(product, n, u)
            pid       == (CHOOSE p \in ProductByUrl(product1, u) : TRUE).id
            price_val == PriceVal(v[1])
            avail     == clean_availability(v[2])
            prev      == PreviousObservation(pricehistory, pid, now)
            found     == ExistingObservation(pricehistory, pid, now)
            key       == AlertKey(pid, prev, price_val)
            drop      == ShouldAlert(email_enabled[r], prev, price_val)
        IN  /\ (ProductByUrl(product, u) = {} => NextProductId(product) \in ProductIds)
            /\ product' = product1
            /\ IF ~found /\ UniqueViolation(pricehistory, pid, now)
               THEN /\ Leave(r, "IntegrityError")
                    /\ o = "delivered"
                    /\ UNCHANGED <<pricehistory, sent>>
               ELSE /\ row' = [row EXCEPT ![r] = [url |-> u, product_name |-> n,
                                                  price |-> v[1], availability |-> avail]]
                    /\ prod_id' = [prod_id EXCEPT ![r] = pid]
                    /\ today' = [today EXCEPT ![r] = now]
                    /\ prev_row' = [prev_row EXCEPT ![r] = prev]
                    /\ existing' = [existing EXCEPT ![r] = found]
                    /\ pricehistory' =
                         IF found THEN pricehistory
                         ELSE InsertObservation(pricehistory, pid, now, price_val, avail)
                    /\ IF drop /\ key \notin alerted[r]
                       THEN /\ sent' = IF o = "delivered"
                                       THEN sent (+) SetToBag({Alert(pid, u, n, prev,
                                                                      price_val, now)})
                                       ELSE sent
                            /\ run_sent' = [run_sent EXCEPT ![r] =
                                    IF o = "delivered" THEN @ (+) SetToBag({key}) ELSE @]
                            /\ alerted' = [alerted EXCEPT ![r] = AlertedAfter(@, key, o)]
                            /\ UNCHANGED skipped
                       ELSE /\ o = "delivered"
                            /\ skipped' = [skipped EXCEPT ![r] =
                                             IF drop THEN @ \cup {key} ELSE @]
                            /\ UNCHANGED <<sent, run_sent, alerted>>
                    /\ UNCHANGED <<pc, outcome>>

\* for row in results: any result is the next one.
SaveRow(r, max_rows, urls) ==
    /\ pc[r] = "loop"
    /\ rows_total < max_rows
    /\ rows_total' = rows_total + 1
    /\ \E u \in urls, n \in Names, v \in Scraped, o \in SendOutcomes :
        ProcessRow(r, u, n, v, o)
    /\ UNCHANGED <<tracked, email_alerts, now, email_enabled, del_url, tracked_urls>>

\* --- save_to_db as a function of the store
\* The tables after the loop body handled one result on day `day`: the upsert,
\* the id, the existing-row test and the insert, as in ProcessRow.
RowStored(st, res) ==
    LET product1 == UpsertProduct(st.product, res.product_name, res.url)
        pid      == (CHOOSE p \in ProductByUrl(product1, res.url) : TRUE).id
        found    == ExistingObservation(st.pricehistory, pid, st.day)
    IN  [product |-> product1,
         pricehistory |-> IF found THEN st.pricehistory
                          ELSE InsertObservation(st.pricehistory, pid, st.day,
                                   PriceVal(res.price),
                                   clean_availability(res.availability)),
         day |-> st.day]

\* for row in results: ...
RECURSIVE SaveAll(_, _)
SaveAll(st, results) ==
    IF results = <<>> THEN st
    ELSE SaveAll(RowStored(st, Head(results)), Tail(results))

\* The observations joined with their products: (url, date, price,
\* availability) and the number of rows holding it.
Observations(st) ==
    {<<(CHOOSE p \in st.product : p.id = x.product_id).url, x.date, x.price,
       x.availability, st.pricehistory[x]>> : x \in DOMAIN st.pricehistory}

\* The lists of results a batch over the urls U can hand to save_to_db: one
\* result per url, in some order.
RECURSIVE ResultLists(_)
ResultLists(U) ==
    IF U = {} THEN {<<>>}
    ELSE UNION {{<<[url |-> u, product_name |-> n, price |-> v[1],
                    availability |-> v[2]]>> \o s : s \in ResultLists(U \ {u})} :
                u \in U, n \in Names, v \in Scraped}

\* ------------------------------------------------------------ registry (db_utils)
\* add_url: INSERT OR IGNORE INTO products
AddUrl(u) ==
    /\ u \notin tracked
    /\ tracked' = tracked \cup {u}
    /\ UNCHANGED <<email_alerts, product, pricehistory, now, sent, rows_total,
                   run_vars, del_url, tracked_urls>>

\* set_email_alerts: REPLACE INTO settings
SetEmailAlerts(enabled) ==
    /\ email_alerts # enabled
    /\ email_alerts' = enabled
    /\ UNCHANGED <<tracked, product, pricehistory, now, sent, rows_total, run_vars,
                   del_url, tracked_urls>>

\* Mutant of RemoveProducts: the product rows are deleted and committed, the
\* price history is not.
RemoveProductRowsOnly(ids) ==
    /\ pricehistory' = pricehistory
    /\ product' = {p \in product : p.id \notin ids}

\* The transaction that removes the products `ids` and their price history.
RemoveProducts(ids) ==
    /\ pricehistory' = DeleteHistoryOf(pricehistory, ids)
    /\ product' = {p \in product : p.id \notin ids}

\* delete_url, first half: the row leaves tracker.db and the delete is committed.
DeleteUrl(u) ==
    /\ del_url = "-"
    /\ u \in tracked
    /\ tracked' = tracked \ {u}
    /\ del_url' = u
    /\ UNCHANGED <<email_alerts, product, pricehistory, now, sent, rows_total,
                   run_vars, tracked_urls>>

\* delete_url, second half: one transaction on prices.db removes the product of
\* that url and its price history; an exception in it is printed and nothing of
\* the transaction is committed.
CascadeDelete ==
    /\ del_url # "-"
    /\ \E fails \in BOOLEAN :
        IF fails THEN UNCHANGED <<product, pricehistory>>
        ELSE RemoveProducts({p.id : p \in ProductByUrl(product, del_url)})
    /\ del_url' = "-"
    /\ UNCHANGED <<tracked, email_alerts, now, sent, rows_total, run_vars,
                   tracked_urls>>

\* --------------------------------------------------------- cleanup_orphaned_data
\* Mutant of OrphanedProducts: the test on the url is inverted.
OrphanedProductsInverted(prod, urls) == {p.id : p \in {q \in prod : q.url \in urls}}

\* orphaned_products: the ids of the products whose url is not tracked
OrphanedProducts(prod, urls) == {p.id : p \in {q \in prod : q.url \notin urls}}

\* tracked_urls = the urls of tracker.db, read on its own connection
CleanupRead ==
    /\ tracked_urls = {"-"}
    /\ tracked_urls' = tracked
    /\ UNCHANGED <<tracked, email_alerts, product, pricehistory, now, sent,
                   rows_total, run_vars, del_url>>

\* One session: the orphans' price history and then the orphans are deleted and
\* committed together; an exception is printed and nothing is committed.
CleanupDelete ==
    /\ tracked_urls # {"-"}
    /\ \E fails \in BOOLEAN :
        IF fails THEN UNCHANGED <<product, pricehistory>>
        ELSE RemoveProducts(OrphanedProducts(product, tracked_urls))
    /\ tracked_urls' = {"-"}
    /\ UNCHANGED <<tracked, email_alerts, now, sent, rows_total, run_vars, del_url>>

\* ------------------------------------------------------------------- the clock
\* Midnight passes.
Tick(max_day) ==
    /\ now < max_day
    /\ now' = now + 1
    /\ UNCHANGED <<tracked, email_alerts, product, pricehistory, sent, rows_total,
                   run_vars, del_url, tracked_urls>>

\* ------------------------------------------------- sites.<site>.scrape_product
Sites == {"amazon", "ebay", "etsy"}
USER_AGENTS == {"chrome-windows", "safari-mac", "chrome-linux", "firefox-windows"}
\* max_retries=3, the default of sites.amazon.scrape_product
DefaultMaxRetries == 3
\* How one page load ends: extracted fields, a bot challenge in the page, a
\* PlaywrightTimeoutError, or any other exception.
FetchOutcomes == {"ok", "challenge", "timeout", "error"}

\* The give-up results: price 'NA', availability 'Unknown', the tag as the name.
Sentinel(tag) == [product_name |-> tag, price |-> "NA", availability |-> "Unknown"]
\* The results of a page that was read: the title found or not, the price
\* found or not, the availability.
Extracted ==
    [product_name : {"Title", "Unknown Product"}, price : {"9.99", "NA"},
     availability : {"In Stock", "Out of Stock"}]

\* [ua for ua in USER_AGENTS if ua != ua]: the comprehension's own ua on both sides
RotationCandidates(current) == {ua \in USER_AGENTS : ua # ua}

FetchEvent(n, ua, o) == [kind |-> "fetch", n |-> n, ua |-> ua, outcome |-> o]
CoolDown == [kind |-> "cooldown", n |-> 0, ua |-> "-", outcome |-> "-"]

\* Mutant of RetryOrGiveUp: attempt <= max_retries in the place of <.
RetryOrGiveUpOffByOne(tag) ==
    IF f.attempt + 1 <= f.max_retries
    THEN f' = [f EXCEPT !.attempt = @ + 1,
                        !.log = Append(@, [kind |-> "cooldown", n |-> 0, ua |-> "-",
                                           outcome |-> "-"]),
                        !.pc = "loop"]
    ELSE f' = [f EXCEPT !.attempt = @ + 1, !.result = Sentinel(tag), !.pc = "done"]

\* attempt += 1, then: retry after asyncio.sleep(10), or give up with the tag
RetryOrGiveUp(tag) ==
    IF f.attempt + 1 < f.max_retries
    THEN f' = [f EXCEPT !.attempt = @ + 1, !.log = Append(@, CoolDown), !.pc = "loop"]
    ELSE f' = [f EXCEPT !.attempt = @ + 1, !.result = Sentinel(tag), !.pc = "done"]

\* amazon: while attempt < max_retries, else the return after the loop
AmazonLoop ==
    /\ f.site = "amazon" /\ f.pc = "loop"
    /\ IF f.attempt < f.max_retries
       THEN f' = [f EXCEPT !.pc = "try"]
       ELSE f' = [f EXCEPT !.result = Sentinel("Error"), !.pc = "done"]
    /\ UNCHANGED store_vars

\* amazon: the user agent of the attempt, page.goto and the reading of the page,
\* up to the bot-protection check
AmazonAttempt ==
    /\ f.site = "amazon" /\ f.pc = "try"
    /\ \E o \in FetchOutcomes,
          ua \in (IF f.user_agent = "-" THEN USER_AGENTS ELSE {f.user_agent}) :
        f' = [f EXCEPT !.ua = ua, !.pc = o,
                       !.log = Append(@, FetchEvent(f.attempt + 1, ua, o))]
    /\ UNCHANGED store_vars

\* amazon: title, price and availability are extracted and returned
AmazonReturn ==
    /\ f.site = "amazon" /\ f.pc = "ok"
    /\ \E res \in Extracted : f' = [f EXCEPT !.result = res, !.pc = "done"]
    /\ UNCHANGED store_vars

\* amazon: bot protection detected. attempt += 1; on a retry: sleep(10) and the
\* new user agent, random.choice of the candidates (IndexError when there is
\* none, caught by except Exception of the same iteration); else the give-up.
AmazonChallenge ==
    /\ f.site = "amazon" /\ f.pc = "challenge"
    /\ IF f.attempt + 1 < f.max_retries
       THEN IF RotationCandidates(f.ua) = {}
            THEN f' = [f EXCEPT !.attempt = @ + 1, !.log = Append(@, CoolDown),
                                !.pc = "error"]
            ELSE \E ua \in RotationCandidates(f.ua) :
                   f' = [f EXCEPT !.attempt = @ + 1, !.log = Append(@, CoolDown),
                                  !.user_agent = ua, !.pc = "loop"]
       ELSE f' = [f EXCEPT !.attempt = @ + 1,
                           !.result = Sentinel("Bot Protection Detected"), !.pc = "done"]
    /\ UNCHANGED store_vars

\* amazon: except PlaywrightTimeoutError
AmazonTimeout ==
    /\ f.site = "amazon" /\ f.pc = "timeout"
    /\ RetryOrGiveUp("Timeout")
    /\ UNCHANGED store_vars

\* amazon: except Exception
AmazonError ==
    /\ f.site = "amazon" /\ f.pc = "error"
    /\ RetryOrGiveUp("Scraping Error")
    /\ UNCHANGED store_vars

\* The result of the single page load of sites.ebay and sites.etsy.
SingleAttempt(o) ==
    \E res \in (CASE o = "ok"        -> Extracted
                  [] o = "challenge" -> {Sentinel("Bot Protection Detected")}
                  [] o = "timeout"   -> {Sentinel("Timeout")}
                  [] o = "error"     -> {Sentinel("Error")}) :
        f' = [f EXCEPT !.log = Append(@, FetchEvent(1, "-", o)), !.result = res,
                       !.pc = "done"]

\* ebay: the whole function, one page load
EbayScrape ==
    /\ f.site = "ebay" /\ f.pc = "loop"
    /\ \E o \in FetchOutcomes : SingleAttempt(o)
    /\ UNCHANGED store_vars

\* etsy: the whole function, one page load
EtsyScrape ==
    /\ f.site = "etsy" /\ f.pc = "loop"
    /\ \E o \in FetchOutcomes : SingleAttempt(o)
    /\ UNCHANGED store_vars

\* A call of scrape_product: the handler of any site; for amazon with any
\* max_retries and with or without a user agent given by the caller.
FetchStarts ==
    {[pc |-> "loop", site |-> s, max_retries |-> m, attempt |-> 0, user_agent |-> u,
      ua |-> "-", log |-> <<>>, result |-> Sentinel("-")] :
        s \in {"amazon"}, m \in 1..MaxRetries, u \in {"-"} \cup USER_AGENTS}
    \cup
    {[pc |-> "loop", site |-> s, max_retries |-> 0, attempt |-> 0, user_agent |-> "-",
      ua |-> "-", log |-> <<>>, result |-> Sentinel("-")] : s \in {"ebay", "etsy"}}

\* What the log of a call says.
Fetches == {i \in DOMAIN f.log : f.log[i].kind = "fetch"}
CoolDowns == {i \in DOMAIN f.log : f.log[i].kind = "cooldown"}
AllFetches(o) == Fetches # {} /\ \A i \in Fetches : f.log[i].outcome = o

\* ------------------------------------------------------------------ scrape_all
\* The product names of the give-up results of the three handlers.
GiveUpTags == {"Bot Protection Detected", "Timeout", "Error", "Scraping Error"}

\* The tags and the prices the batches are run with.
BatchTags == {"Timeout"}
BatchPrices == {1}

\* The source column of a tracked url: the dashboard's form writes 'amazon',
\* 'ebay' or 'etsy'; add_url itself stores any string it is given. OtherURLs
\* are urls added with another source.
OtherURLs == {"u3"}
Source(u) == IF u \in OtherURLs THEN "other" ELSE "amazon"

\* detect_site(source): the site of a known source, else None
detect_site(source) == IF source \in Sites THEN source ELSE "None"

\* What handler_module.scrape_product hands back for a target: a give-up
\* sentinel, or the fields read from the page.
HandlerResults(u) ==
    {[url |-> u, product_name |-> t, price |-> NULL, availability |-> "Unknown"] :
        t \in BatchTags}
    \cup {[url |-> u, product_name |-> n, price |-> p, availability |-> "In Stock"] :
        n \in Names, p \in BatchPrices}

\* Mutant of HandlerEnds: a handler that gives up raises.
HandlerEndsRaising(res) ==
    IF res.product_name \in GiveUpTags THEN {"raised"} ELSE {"returned"}

\* How the call of a handler ends for scrape_all: the three handlers catch
\* every exception of their page load and return a dict.
HandlerEnds(res) == {"returned"}

\* get_urls: the rows of `urls` as a list (ORDER BY created_at DESC; the model
\* keeps no creation time and lists the urls in one fixed order).
Listing(urls) ==
    CHOOSE s \in [1..Cardinality(urls) -> urls] :
        \A i, j \in 1..Cardinality(urls) : s[i] = s[j] => i = j

\* No batch has run: where scrape_all is, the urls still to fetch, the results,
\* and what the last batch found and did (the urls got from get_urls, the
\* products its reconciliation removed and the untracked ones it left, the
\* targets that gave up and those saved with an observation), the batches
\* completed.
BatchIdle ==
    [pc |-> "idle", urls |-> <<>>, results |-> <<>>, targets |-> {},
     removed |-> {}, left |-> {}, gaveup |-> {}, saved |-> {}, aborted |-> FALSE,
     n |-> 0]

\* scrape_all is entered: cleanup_orphaned_data reads the tracked urls.
BatchCleanupRead(max_batches) ==
    /\ b.pc = "idle" /\ b.n < max_batches
    /\ pc["r1"] = "idle"
    /\ CleanupRead
    /\ b' = [BatchIdle EXCEPT !.pc = "cleanup", !.n = b.n]
    /\ UNCHANGED <<f, px>>

\* cleanup_orphaned_data: the delete of the orphans, committed or failed.
BatchCleanupDelete ==
    /\ b.pc = "cleanup"
    /\ CleanupDelete
    /\ b' = [b EXCEPT !.pc = "geturls",
                      !.removed = {p.url : p \in {q \in product :
                                      \A q2 \in product' : q2.id # q.id}},
                      !.left = {p.url : p \in {q \in product' :
                                      q.url \notin tracked_urls}}]
    /\ UNCHANGED <<f, px>>

\* get_urls (db_utils) opens tracker.db and selects the rows; it has no except
\* clause, so an sqlite3 error leaves it.
GetUrlsEnds == {"returned", "raised"}

\* Mutant of GetUrlsRaised: the exception is swallowed and scrape_all goes on to
\* save_to_db.
GetUrlsRaisedGoesOn(bb) == [bb EXCEPT !.pc = "save", !.aborted = TRUE]

\* scrape_all calls get_urls outside any try block: the exception leaves
\* scrape_all before the fetch loop.
GetUrlsRaised(bb) == [bb EXCEPT !.pc = "idle", !.aborted = TRUE, !.n = @ + 1]

\* urls = get_urls(); if not urls: return
BatchGetUrls ==
    /\ b.pc = "geturls"
    /\ \E e \in GetUrlsEnds :
         b' = IF e = "raised" THEN GetUrlsRaised(b)
              ELSE IF tracked = {}
                   THEN [b EXCEPT !.pc = "idle", !.n = @ + 1]
                   ELSE [b EXCEPT !.pc = "fetch", !.urls = Listing(tracked),
                                  !.targets = tracked]
    /\ UNCHANGED <<store_vars, f, px>>

\* for _, url, source, _ in urls: data = handler.scrape_product(page, url);
\* results.append(data). An exception of the handler leaves scrape_all.
BatchFetch ==
    /\ b.pc = "fetch"
    /\ IF detect_site(Source(Head(b.urls))) = "None"
       THEN b' = [b EXCEPT !.urls = Tail(@),
                           !.pc = IF Len(b.urls) = 1 THEN "save" ELSE "fetch"]
       ELSE \E res \in HandlerResults(Head(b.urls)) : \E e \in HandlerEnds(res) :
        IF e = "raised"
        THEN b' = [b EXCEPT !.pc = "idle", !.aborted = TRUE, !.n = @ + 1]
        ELSE b' = [b EXCEPT !.urls = Tail(@), !.results = Append(@, res),
                            !.gaveup = IF res.product_name \in GiveUpTags
                                       THEN @ \cup {res.url} ELSE @,
                            !.pc = IF Len(b.urls) = 1 THEN "save" ELSE "fetch"]
    /\ UNCHANGED <<store_vars, f, px>>

\* await save_to_db(results): the function is entered
BatchSaveStart ==
    /\ b.pc = "save"
    /\ SaveStart("r1")
    /\ b' = [b EXCEPT !.pc = "saving"]
    /\ UNCHANGED <<f, px>>

\* save_to_db: the next result of the batch is processed; an exception leaves
\* save_to_db and scrape_all.
BatchSaveRow ==
    /\ b.pc = "saving" /\ b.results # <<>>
    /\ LET res == Head(b.results)
       IN  /\ \E o \in SendOutcomes :
                ProcessRow("r1", res.url, res.product_name,
                           <<res.price, res.availability>>, o)
           /\ b' = IF pc'["r1"] = "idle"
                   THEN [b EXCEPT !.pc = "idle", !.aborted = TRUE, !.n = @ + 1]
                   ELSE [b EXCEPT !.results = Tail(@),
                                  !.saved = IF ExistingObservation(pricehistory',
                                                    prod_id'["r1"], now)
                                            THEN @ \cup {res.url} ELSE @]
    /\ UNCHANGED <<tracked, email_alerts, now, email_enabled, del_url, tracked_urls,
                   rows_total, f, px>>

\* save_to_db returns and scrape_all with it.
BatchSaveReturn ==
    /\ b.pc = "saving" /\ b.results = <<>>
    /\ SaveReturn("r1")
    /\ b' = [b EXCEPT !.pc = "idle", !.n = @ + 1]
    /\ UNCHANGED <<f, px>>

\* ------------------------------------------------ sites.<site>.extract_price
\* A text is a sequence of characters, each a one-character string; Pound and
\* Euro stand for the pound and the euro sign.
PriceLen == 4
MaxRun == 4
Pound == "pound"
Euro == "euro"
Digits == {"0", "1", "2", "3", "4", "5", "6", "7", "8", "9"}
Whitespace == {" ", "\t", "\n"}

\* The marker of an undetermined price: the string 'NA'.
NA == <<"N", "A">>

\* str.replace(old, new): every occurrence, left to right, without overlap
RECURSIVE Replace(_, _, _)
Replace(s, old, new) ==
    IF Len(s) < Len(old) THEN s
    ELSE IF SubSeq(s, 1, Len(old)) = old
         THEN new \o Replace(SubSeq(s, Len(old) + 1, Len(s)), old, new)
         ELSE <<Head(s)>> \o Replace(Tail(s), old, new)

\* str.strip(): the whitespace at both ends is dropped
RECURSIVE LStrip(_)
LStrip(s) == IF s # <<>> /\ Head(s) \in Whitespace THEN LStrip(Tail(s)) ELSE s

RECURSIVE RStrip(_)
RStrip(s) ==
    IF s # <<>> /\ s[Len(s)] \in Whitespace THEN RStrip(SubSeq(s, 1, Len(s) - 1))
    ELSE s

Strip(s) == RStrip(LStrip(s))

\* The currency marks a handler removes, in the order of its replace calls:
\* ebay and etsy also remove 'EUR'.
CurrencyMarks(site) ==
    IF site = "amazon" THEN << <<"$">>, <<Pound>>, <<Euro>> >>
    ELSE << <<"$">>, <<Pound>>, <<Euro>>, <<"E", "U", "R">> >>

\* price_text.replace('$', '').replace(...)...
RECURSIVE RemoveEach(_, _)
RemoveEach(s, marks) ==
    IF marks = <<>> THEN s
    ELSE RemoveEach(Replace(s, Head(marks), <<>>), Tail(marks))

\* c in s
Has(s, c) == \E i \in DOMAIN s : s[i] = c

\* Mutant of IsEuropean: two or three digits after the comma.
IsEuropeanOrThousands(s) ==
    \E k \in 1..3 : \E m \in 2..3 :
        /\ Len(s) = k + 1 + m
        /\ s[k + 1] = ","
        /\ \A i \in (1..k) \cup ((k + 2)..(k + 1 + m)) : s[i] \in Digits

\* re.match(r'^\d{1,3},\d{2}$', cleaned), on a text with no newline at its end
IsEuropean(s) ==
    \E k \in 1..3 :
        /\ Len(s) = k + 3
        /\ s[k + 1] = ","
        /\ \A i \in (1..k) \cup {k + 2, k + 3} : s[i] \in Digits

\* Mutant of NormalizeSeparators: a comma that is not a European decimal comma
\* becomes a point.
NormalizeSeparatorsCommaIsPoint(cleaned) ==
    IF Has(cleaned, ",") /\ Has(cleaned, ".") THEN Replace(cleaned, <<",">>, <<>>)
    ELSE IF Has(cleaned, ",") THEN Replace(cleaned, <<",">>, <<".">>)
    ELSE cleaned

\* The separator rules: mixed, European decimal comma, thousands comma, none.
NormalizeSeparators(cleaned) ==
    IF Has(cleaned, ",") /\ Has(cleaned, ".") THEN Replace(cleaned, <<",">>, <<>>)
    ELSE IF Has(cleaned, ",") /\ ~Has(cleaned, ".")
         THEN IF IsEuropean(cleaned) THEN Replace(cleaned, <<",">>, <<".">>)
              ELSE Replace(cleaned, <<",">>, <<>>)
         ELSE cleaned

\* The first digit of s: where the leftmost match of \d+ starts.
FirstDigit(s) ==
    CHOOSE i \in DOMAIN s : s[i] \in Digits /\ \A k \in 1..(i - 1) : s[k] \notin Digits

\* Mutant of RunEnd: a run of several digits ends one digit early.
RunEndShort(s, i) ==
    CHOOSE j \in i..Len(s) :
        /\ \A k \in i..j : s[k] \in Digits
        /\ IF i < Len(s) /\ s[i + 1] \in Digits
           THEN j + 1 <= Len(s) /\ s[j + 1] \in Digits
                /\ (j + 1 = Len(s) \/ s[j + 2] \notin Digits)
           ELSE j = i

\* The end of the run of digits that starts at i: \d+ is greedy.
RunEnd(s, i) ==
    CHOOSE j \in i..Len(s) :
        /\ \A k \in i..j : s[k] \in Digits
        /\ (j = Len(s) \/ s[j + 1] \notin Digits)

\* re.search(r'(\d+(?:\.\d{1,2})?)', s).group(1), or <<>> for no match: the
\* leftmost run of digits, with a point and one or two digits when they follow.
SearchDecimal(s) ==
    IF \A i \in DOMAIN s : s[i] \notin Digits THEN <<>>
    ELSE LET i == FirstDigit(s)
             j == RunEnd(s, i)
             frac == j + 2 <= Len(s) /\ s[j + 1] = "." /\ s[j + 2] \in Digits
             e == IF ~frac THEN j
                  ELSE IF j + 3 <= Len(s) /\ s[j + 3] \in Digits THEN j + 3
                  ELSE j + 2
         IN  SubSeq(s, i, e)

\* re.search(r'(\d+)', s).group(1), or <<>> for no match
SearchInteger(s) ==
    IF \A i \in DOMAIN s : s[i] \notin Digits THEN <<>>
    ELSE SubSeq(s, FirstDigit(s), RunEnd(s, FirstDigit(s)))

\* Mutant of FirstMatch: nothing is returned when no pattern matches.
FirstMatchOrNothing(s) ==
    IF SearchDecimal(s) # <<>> THEN SearchDecimal(s) ELSE SearchInteger(s)

\* for pattern in patterns: the first pattern that matches gives the result;
\* return 'NA' when none does.
FirstMatch(s) ==
    IF SearchDecimal(s) # <<>> THEN SearchDecimal(s)
    ELSE IF SearchInteger(s) # <<>> THEN SearchInteger(s)
    ELSE NA

\* The locals of extract_price(price_text) of a site and its result: cleaned
\* after the currency removal, cleaned after the separator rules.
ExtractPriceLocals(site, price_text) ==
    LET stripped == Strip(RemoveEach(price_text, CurrencyMarks(site)))
        cleaned  == NormalizeSeparators(stripped)
    IN  [stripped |-> stripped, cleaned |-> cleaned,
         result |-> IF price_text = <<>> THEN NA ELSE FirstMatch(cleaned)]

extract_price(site, price_text) == ExtractPriceLocals(site, price_text).result

\* The cases of test_price_extraction_functions: (input, expected).
Documented ==
    {<<<<"$", "1", "2", "3", ".", "4", "5">>,
       <<"1", "2", "3", ".", "4", "5">>>>,
     <<<<"$", "1", ",", "2", "3", "4", ".", "5", "6">>,
       <<"1", "2", "3", "4", ".", "5", "6">>>>,
     <<<<Euro, "9", "9", ",", "9", "9">>,
       <<"9", "9", ".", "9", "9">>>>,
     <<<<Pound, "1", ",", "2", "3", "4", ".", "5", "6">>,
       <<"1", "2", "3", "4", ".", "5", "6">>>>,
     <<<<"1", "2", "3", ".", "4", "5">>,
       <<"1", "2", "3", ".", "4", "5">>>>,
     <<<<"1", ",", "2", "3", "4">>,
       <<"1", "2", "3", "4">>>>,
     <<<<"9", "9", ".", "9", "9">>,
       <<"9", "9", ".", "9", "9">>>>,
     <<<<>>,
       <<"N", "A">>>>,
     <<<<"O", "u", "t", " ", "o", "f", " ", "s", "t", "o", "c", "k">>,
       <<"N", "A">>>>,
     <<<<"$", "1", ",", "2", "3", "4", ",", "5", "6", "7", ".", "8", "9">>,
       <<"1", "2", "3", "4", "5", "6", "7", ".", "8", "9">>>>}

\* Inputs: every text of up to PriceLen characters over PriceAlphabet, the
\* documented inputs, runs of digits around one separator, and further texts.
PriceAlphabet == {"1", ",", ".", "$", "x", " "}
Run(n) == [i \in 1..n |-> "1"]
PriceTexts ==
    UNION {[1..k -> PriceAlphabet] : k \in 0..PriceLen}
    \cup {d[1] : d \in Documented}
    \cup {Run(m) \o <<c>> \o Run(n) : m \in 1..MaxRun, n \in 1..MaxRun, c \in {",", "."}}
    \cup {<<Euro, "1", "9", ",", "9", "9">>,
     <<"E", "U", "R", " ", "2", "9", ",", "9", "9">>,
     <<"2", "9", ",", "9", "9", " ", "E", "U", "R">>,
     <<"-", "5">>,
     <<"-", "1", ".", "5", "0">>,
     <<"1", ".", "2", "3", "4">>,
     <<"1", "2", ".", "3", "4", "5">>,
     <<"1", ".", "2", ".", "3">>,
     <<"1", ",", "2", ",", "3">>,
     <<"1", "2", ",", "3", "4", ",", "5", "6">>,
     <<"1", "2", "3", ",", "4", "5", " ">>,
     <<"1", "2", "3", "4", ",", "5", "6">>,
     <<"$", " ", "7">>,
     <<"U", "S", " ", "$", "1", "2", ".", "0", "0">>,
     <<"1", "2", ".", "5", " ", "k", "g">>,
     <<"1", " ", "2", "3", "4", ",", "5", "6">>,
     <<"E", "$", "U", "R", "9">>,
     <<"N", "A">>}

PriceIdle == [pc |-> "idle"]

PriceStarts == {[pc |-> "call", site |-> site, text |-> t] :
                    site \in Sites, t \in PriceTexts}

\* price = extract_price(price_text), of one site's module
ExtractPrice(site) ==
    /\ px.pc = "call" /\ px.site = site
    /\ LET l == ExtractPriceLocals(site, px.text)
       IN  px' = [pc |-> "returned", site |-> site, text |-> px.text,
                  stripped |-> l.stripped, cleaned |-> l.cleaned,
                  result |-> l.result, again |-> <<>>]
    /\ UNCHANGED <<store_vars, f, b>>

\* extract_price applied to a result it determined
ExtractAgain ==
    /\ px.pc = "returned" /\ px.result # NA
    /\ px' = [px EXCEPT !.pc = "again", !.again = extract_price(px.site, px.result)]
    /\ UNCHANGED <<store_vars, f, b>>

\* ------------------------------- sites.<site>.scrape_product: reading the page
\* The selectors of one list tried on a page (the lists of the handlers hold 4
\* to 21 selectors).
MaxStrategies == 2

UnknownProduct == <<"U", "n", "k", "n", "o", "w", "n", " ", "P", "r", "o", "d", "u", "c", "t">>

\* ' '.join(title.split()): runs of whitespace become one space, none at the ends
RECURSIVE Collapse(_)
Collapse(s) ==
    IF s = <<>> THEN <<>>
    ELSE IF Head(s) \in Whitespace
         THEN IF LStrip(s) = <<>> THEN <<>> ELSE <<" ">> \o Collapse(LStrip(s))
         ELSE <<Head(s)>> \o Collapse(Tail(s))

\* clean_title of the site's module: amazon's gives 'Unknown Product' for an
\* empty title.
site_clean_title(site, title) ==
    IF site = "amazon" /\ title = <<>> THEN UnknownProduct
    ELSE Collapse(LStrip(title))

\* The values of the local `price`: None, a str, or the float amazon converts a
\* determined price to.
NoPrice == [kind |-> "None", text |-> <<>>]
StrPrice(t) == [kind |-> "str", text |-> t]
FloatPrice(t) == [kind |-> "float", text |-> t]

\* float(text) == 0.0, for a text of digits and at most one point
IsZero(t) == \A i \in DOMAIN t : t[i] \in {"0", "."}

\* not price
Falsy(p) ==
    \/ p.kind = "None"
    \/ p.kind = "str" /\ p.text = <<>>
    \/ p.kind = "float" /\ IsZero(p.text)

\* not price or price == 'NA'
PriceMissing(p) == Falsy(p) \/ p = StrPrice(NA)

\* price = extract_price(price_text); amazon: if price != 'NA': price = float(price)
Normalized(site, text) ==
    IF extract_price(site, text) = NA THEN StrPrice(NA)
    ELSE IF site = "amazon" THEN FloatPrice(extract_price(site, text))
    ELSE StrPrice(extract_price(site, text))

\* The test a fallback element's text must pass, by site: amazon
\* re.search(r'\$[\d,]+\.?\d*'), ebay a currency mark, etsy a currency mark or
\* a digit.
HasMark(t) ==
    \/ Has(t, "$") \/ Has(t, Euro) \/ Has(t, Pound)
    \/ \E i \in 1..(Len(t) - 2) : SubSeq(t, i, i + 2) = <<"E", "U", "R">>
FallbackMatch(site, t) ==
    CASE site = "amazon" ->
           \E i \in 1..(Len(t) - 1) : t[i] = "$" /\ t[i + 1] \in Digits \cup {","}
      [] site = "ebay" -> HasMark(t)
      [] site = "etsy" -> HasMark(t) \/ \E i \in DOMAIN t : t[i] \in Digits

\* The texts of the elements of a page: of a price element, of a title.
PageTexts ==
    {<<"$", "5">>,
     <<"$", "0", ".", "0", "0">>,
     <<"5">>,
     <<"x">>,
     <<" ">>,
     <<>>,
     <<"E", "U", "R", " ", "7">>,
     <<"7", " ", Euro>>}
TitleTexts ==
    {<<"W", "i", "d", "g", "e", "t">>,
     <<" ", "A", " ", " ", "B", " ">>,
     <<" ", " ">>,
     <<>>}

\* What one availability selector finds: no element, an exception, or an
\* element whose text holds a sold-out phrase, an in-stock phrase, neither,
\* or nothing.
AvailabilityFinds == {"missing", "raises", "out", "in", "other", "empty"}

\* The page was loaded and is no challenge: title = "Unknown Product", and the
\* ghosts of what the strategies found.
PageStarts ==
    {[pc |-> "title", site |-> site, i |-> 1, title |-> UnknownProduct,
      price |-> NoPrice, availability |-> "-",
      title_hit |-> FALSE, first |-> NoPrice, scanned |-> FALSE,
      found |-> NoPrice, filtered |-> FALSE, avail_hit |-> FALSE] : site \in Sites}

\* for title_sel in title_selectors: wait_for_selector raises, or the element's
\* textContent is cleaned and the loop left
TitleStrategy ==
    /\ f.pc = "title"
    /\ \/ f' = [f EXCEPT !.i = IF f.i < MaxStrategies THEN @ + 1 ELSE 1,
                         !.pc = IF f.i < MaxStrategies THEN "title" ELSE "price"]
       \/ \E t \in TitleTexts :
            f' = [f EXCEPT !.title = site_clean_title(f.site, t), !.title_hit = TRUE,
                           !.i = 1, !.pc = "price"]
    /\ UNCHANGED <<store_vars, b, px>>

\* for selector in price_selectors: no element, an exception, or the element's
\* text; a text that is not blank is normalized, and a determined price leaves
\* the loop
PriceStrategy ==
    /\ f.pc = "price"
    /\ \E o \in {<<"missing">>, <<"raises">>} \cup {<<"text", t>> : t \in PageTexts} :
        LET read  == o[1] = "text" /\ o[2] # <<>> /\ Strip(o[2]) # <<>>
            price == IF read THEN Normalized(f.site, o[2]) ELSE f.price
            hit   == read /\ price # StrPrice(NA)
        IN  f' = [f EXCEPT !.price = price,
                           !.first = IF hit THEN price ELSE @,
                           !.i = IF hit \/ f.i = MaxStrategies THEN 1 ELSE @ + 1,
                           !.pc = IF hit \/ f.i = MaxStrategies THEN "fallback"
                                  ELSE "price"]
    /\ UNCHANGED <<store_vars, b, px>>

\* if not price or price == 'NA': query_selector_all(...), which may raise or
\* find no element
FallbackStart ==
    /\ f.pc = "fallback"
    /\ IF PriceMissing(f.price)
       THEN \E o \in {"raises", "elements"} :
              f' = [f EXCEPT !.scanned = TRUE,
                             !.pc = IF o = "raises" THEN "filter" ELSE "scan"]
       ELSE f' = [f EXCEPT !.pc = "filter"]
    /\ UNCHANGED <<store_vars, b, px>>

\* for i, elem in enumerate(price_elements): the list ends, the element raises,
\* or its text passes the site's test and is normalized (no float here)
FallbackElement ==
    /\ f.pc = "scan"
    /\ \/ f' = [f EXCEPT !.i = 1, !.pc = "filter"]
       \/ /\ f.i <= MaxStrategies
          /\ \E o \in {<<"raises">>} \cup {<<"text", t>> : t \in PageTexts} :
              LET read  == o[1] = "text" /\ o[2] # <<>> /\ FallbackMatch(f.site, o[2])
                  price == IF read THEN StrPrice(extract_price(f.site, o[2]))
                           ELSE f.price
                  hit   == read /\ price # StrPrice(NA)
              IN  f' = [f EXCEPT !.price = price,
                                 !.found = IF hit THEN price ELSE @,
                                 !.i = IF hit THEN 1 ELSE @ + 1,
                                 !.pc = IF hit THEN "filter" ELSE "scan"]
    /\ UNCHANGED <<store_vars, b, px>>

\* amazon: a price of an item that 'cannot be shipped' is dropped; every site:
\* if not price or price == 'NA': price = 'NA'
PriceFinal ==
    /\ f.pc = "filter"
    /\ \E cannot_ship \in (IF f.site = "amazon" THEN BOOLEAN ELSE {FALSE}) :
        LET drop  == ~PriceMissing(f.price) /\ cannot_ship
            price == IF drop THEN StrPrice(NA) ELSE f.price
        IN  f' = [f EXCEPT !.price = IF PriceMissing(price) THEN StrPrice(NA) ELSE price,
                           !.filtered = drop,
                           !.availability = "In Stock", !.i = 1, !.pc = "avail"]
    /\ UNCHANGED <<store_vars, b, px>>

\* for avail_selector in availability_selectors: a sold-out phrase gives 'Out of
\* Stock' and leaves the loop; in amazon an in-stock phrase gives 'In Stock' and
\* leaves the loop
AvailabilityStrategy ==
    /\ f.pc = "avail"
    /\ \E o \in AvailabilityFinds :
        LET out == o = "out"
            in  == o = "in" /\ f.site = "amazon"
        IN  f' = [f EXCEPT !.availability = IF out THEN "Out of Stock"
                                            ELSE IF in THEN "In Stock" ELSE @,
                           !.avail_hit = out \/ in,
                           !.i = IF out \/ in \/ f.i = MaxStrategies THEN 1 ELSE @ + 1,
                           !.pc = IF out \/ in \/ f.i = MaxStrategies THEN "return"
                                  ELSE "avail"]
    /\ UNCHANGED <<store_vars, b, px>>

\* return {'product_name': title, 'price': price, 'availability': availability}
PageReturn ==
    /\ f.pc = "return"
    /\ f' = [f EXCEPT !.pc = "returned"]
    /\ UNCHANGED <<store_vars, b, px>>

\* -------------------------------------------------------------- specifications
\* After init_db of both databases: empty tables, email_alerts = '1'.
StoreInit ==
    /\ tracked = {}
    /\ email_alerts = TRUE
    /\ product = {}
    /\ pricehistory = EmptyBag
    /\ now = 1
    /\ sent = EmptyBag
    /\ rows_total = 0
    /\ pc = [r \in Runs |-> "idle"]
    /\ row = [r \in Runs |-> NoRow]
    /\ prod_id = [r \in Runs |-> 0]
    /\ today = [r \in Runs |-> 0]
    /\ prev_row = [r \in Runs |-> {}]
    /\ existing = [r \in Runs |-> FALSE]
    /\ alerted = [r \in Runs |-> {}]
    /\ run_sent = [r \in Runs |-> EmptyBag]
    /\ skipped = [r \in Runs |-> {}]
    /\ email_enabled = [r \in Runs |-> TRUE]
    /\ outcome = [r \in Runs |-> "none"]
    /\ del_url = "-"
    /\ tracked_urls = {"-"}

FetchIdle == [pc |-> "idle"]

Init == StoreInit /\ f = FetchIdle /\ b = BatchIdle /\ px = PriceIdle

\* One process runs save_to_db, batch after batch over the days, while the
\* dashboard may toggle the alert setting.
SeqNext ==
    \/ SaveStart("r1")
    \/ SaveRow("r1", MaxRows, URLs)
    \/ SaveReturn("r1")
    \/ \E enabled \in BOOLEAN : SetEmailAlerts(enabled)
    \/ Tick(MaxDay)

Next == SeqNext /\ UNCHANGED <<f, b, px>>

Spec == Init /\ [][Next]_vars

\* Two processes run save_to_db at once, a statement at a time, beside delete_url
\* and the reconciliation.
ConcNext ==
    \/ \E r \in Runs : SaveStart(r)
    \/ \E r \in Runs : UpsertRow(r, ConcRows, ConcURLs)
    \/ \E r \in Runs : GetId(r)
    \/ \E r \in Runs : ReadPrevious(r)
    \/ \E r \in Runs : CheckExisting(r)
    \/ \E r \in Runs : InsertOrSkip(r)
    \/ \E r \in Runs : PriceDropAlert(r)
    \/ \E r \in Runs : SaveReturn(r)
    \/ \E u \in ConcURLs : AddUrl(u)
    \/ \E u \in ConcURLs : DeleteUrl(u)
    \/ CascadeDelete
    \/ CleanupRead
    \/ CleanupDelete
    \/ Tick(ConcDay)

ConcSpec == Init /\ [][ConcNext /\ UNCHANGED <<f, b, px>>]_vars

\* One process runs save_to_db a statement at a time and may be stopped at any
\* statement.
AbortNext ==
    \/ SaveStart("r1")
    \/ UpsertRow("r1", ConcRows, URLs)
    \/ GetId("r1")
    \/ ReadPrevious("r1")
    \/ CheckExisting("r1")
    \/ InsertOrSkip("r1")
    \/ PriceDropAlert("r1")
    \/ SaveReturn("r1")
    \/ Abort("r1")
    \/ Tick(ConcDay)

AbortSpec == Init /\ [][AbortNext /\ UNCHANGED <<f, b, px>>]_vars

\* The scheduler runs scrape_all, batch after batch, while the dashboard adds
\* and deletes targets; a batch starts at 10:00 and midnight passes between
\* two batches.
BatchNext ==
    \/ BatchCleanupRead(MaxBatches)
    \/ BatchCleanupDelete
    \/ BatchGetUrls
    \/ BatchFetch
    \/ BatchSaveStart
    \/ BatchSaveRow
    \/ BatchSaveReturn
    \/ (\E u \in URLs : AddUrl(u)) /\ UNCHANGED <<f, b, px>>
    \/ (\E u \in URLs : DeleteUrl(u)) /\ UNCHANGED <<f, b, px>>
    \/ CascadeDelete /\ UNCHANGED <<f, b, px>>
    \/ b.pc = "idle" /\ Tick(BatchDay) /\ UNCHANGED <<f, b, px>>

BatchSpec == Init /\ [][BatchNext]_vars

\* scrape_all, batch after batch, over a registry that add_url filled with
\* urls of any source.
AnySourceNext ==
    \/ BatchCleanupRead(MaxBatches)
    \/ BatchCleanupDelete
    \/ BatchGetUrls
    \/ BatchFetch
    \/ BatchSaveStart
    \/ BatchSaveRow
    \/ BatchSaveReturn
    \/ (\E u \in ConcURLs \cup OtherURLs : AddUrl(u)) /\ UNCHANGED <<f, b, px>>
    \/ b.pc = "idle" /\ Tick(BatchDay) /\ UNCHANGED <<f, b, px>>

AnySourceSpec == Init /\ [][AnySourceNext]_vars

\* One call of a site's extract_price on some text, and a second call on its
\* result.
PriceInit == StoreInit /\ f = FetchIdle /\ b = BatchIdle /\ px \in PriceStarts

PriceNext ==
    \/ \E site \in Sites : ExtractPrice(site)
    \/ ExtractAgain

PriceSpec == PriceInit /\ [][PriceNext]_vars

\* One page read by a site handler: title, price, availability.
PageInit == StoreInit /\ f \in PageStarts /\ b = BatchIdle /\ px = PriceIdle

PageNext ==
    \/ TitleStrategy
    \/ PriceStrategy
    \/ FallbackStart
    \/ FallbackElement
    \/ PriceFinal
    \/ AvailabilityStrategy
    \/ PageReturn

PageSpec == PageInit /\ [][PageNext]_vars

\* One call of a site handler's scrape_product.
FetchInit == StoreInit /\ f \in FetchStarts /\ b = BatchIdle /\ px = PriceIdle

FetchNext ==
    \/ AmazonLoop
    \/ AmazonAttempt
    \/ AmazonReturn
    \/ AmazonChallenge
    \/ AmazonTimeout
    \/ AmazonError
    \/ EbayScrape
    \/ EtsyScrape

FetchSpec == FetchInit /\ [][FetchNext /\ UNCHANGED <<b, px>>]_vars

\* ======================================================================= claims
\* C1: in every reachable state, also with two save_to_db processes interleaved
\* with delete_url and the reconciliation, pricehistory holds at most one row
\* for each (product_id, date).
UniqueObservationPerDay ==
    \A x \in DOMAIN pricehistory :
        /\ pricehistory[x] = 1
        /\ \A y \in DOMAIN pricehistory :
             (y.product_id = x.product_id /\ y.date = x.date) => y = x

\* A second insert for an occupied (product_id, date) was attempted and refused.
UniqueObservationPerDayWitness ==
    \E r \in Runs : outcome[r] = "IntegrityError" /\ pricehistory # EmptyBag

\* C2: a step never changes the row stored for a (product_id, date) that is still
\* stored after it (the first value wins), and save_to_db never ends in an
\* error when it meets an occupied slot.
FirstValueWins ==
    /\ [][\A x \in DOMAIN pricehistory :
             (\E y \in DOMAIN pricehistory' :
                 y.product_id = x.product_id /\ y.date = x.date)
             => (x \in DOMAIN pricehistory' /\ pricehistory'[x] = pricehistory[x])]_vars
    /\ [](\A r \in Runs : outcome[r] \in {"none", "running", "returned"})

\* A result was processed whose slot was occupied by a different price, and the
\* activation goes on.
FirstValueWinsWitness ==
    /\ pc["r1"] = "loop" /\ existing["r1"]
    /\ \E x \in DOMAIN pricehistory :
         /\ x.product_id = prod_id["r1"] /\ x.date = today["r1"]
         /\ x.price # PriceVal(row["r1"].price)

\* C3 (as claimed): with two processes in save_to_db at once, no activation ends
\* in the IntegrityError of the unique constraint.
ConcurrentWritersNeverError ==
    \A r \in Runs : outcome[r] # "IntegrityError"

\* C4: every alert delivered in a step was computed from an observation of the
\* product stored before the step, dated before the alert's day, with a
\* determined price, and from a determined new price strictly below it.
NewAlerts == {a \in DOMAIN sent' : a \notin DOMAIN sent \/ sent'[a] > sent[a]}
AlertOnlyOnDrop ==
    [][\A a \in NewAlerts :
         /\ a.old_price # NULL /\ a.new_price # NULL
         /\ a.new_price < a.old_price
         /\ \E x \in DOMAIN pricehistory :
              /\ x.product_id = a.product_id /\ x.date = a.prev_date
              /\ x.date < a.day /\ x.price = a.old_price]_vars

\* An alert was delivered.
AlertOnlyOnDropWitness == sent # EmptyBag

\* C5 (as claimed): over all batches of a day, one price drop of a product is
\* alerted at most once.
AlertOncePerDrop ==
    \A a \in DOMAIN sent : sent[a] <= 1

\* C6: within one activation of save_to_db, no alert key is delivered twice.
OneAlertPerKeyInRun ==
    \A r \in Runs : \A k \in DOMAIN run_sent[r] : run_sent[r][k] = 1

\* The same transition was evaluated again in the activation that alerted it,
\* and was not sent again.
OneAlertPerKeyInRunWitness ==
    \E k \in skipped["r1"] : k \in DOMAIN run_sent["r1"]

\* C7: the previous observation a result is compared with is a stored observation
\* of the same product dated before today, no observation of that product lies
\* between it and today, and there is none exactly when the product has no
\* observation before today.
PreviousIsLatestBeforeToday ==
    [][(rows_total' = rows_total + 1 /\ pc'["r1"] = "loop") =>
         LET mine == {x \in DOMAIN pricehistory :
                        x.product_id = prod_id'["r1"] /\ x.date < today'["r1"]}
         IN  /\ prev_row'["r1"] \subseteq mine
             /\ Cardinality(prev_row'["r1"]) <= 1
             /\ (prev_row'["r1"] = {}) = (mine = {})
             /\ \A p \in prev_row'["r1"] : \A x \in mine : x.date <= p.date]_vars

\* The previous observation was picked among two earlier ones of the product,
\* with today's own observation stored too.
PreviousIsLatestBeforeTodayWitness ==
    \E p \in prev_row["r1"] :
        /\ \E x \in DOMAIN pricehistory :
             x.product_id = p.product_id /\ x.date < p.date
        /\ \E x \in DOMAIN pricehistory :
             x.product_id = p.product_id /\ x.date = today["r1"]

\* C8 (as claimed): amazon, max_retries 3, every page load a challenge: the call
\* ends with 'Bot Protection Detected' after 3 page loads and 2 cool-downs, one
\* between each two loads.
ChallengeGiveUpAfterThree ==
    (f.pc = "done" /\ f.site = "amazon" /\ f.max_retries = DefaultMaxRetries
       /\ AllFetches("challenge"))
    => /\ f.result = Sentinel("Bot Protection Detected")
       /\ Cardinality(Fetches) = 3
       /\ Cardinality(CoolDowns) = 2
       /\ Fetches = {1, 3, 5}

\* C9: amazon: a timeout on attempt n < max_retries is followed by a cool-down and
\* a further page load, never by the end of the call; and a call whose page
\* loads all timed out ends after max_retries loads with the 'Timeout' sentinel.
TimeoutRetriedThenGivenUp ==
    f.site = "amazon" =>
    /\ \A i \in Fetches :
         (f.log[i].outcome = "timeout" /\ f.log[i].n < f.max_retries) =>
            /\ f.pc = "done" => i + 2 <= Len(f.log)
            /\ i + 1 <= Len(f.log) => f.log[i + 1].kind = "cooldown"
            /\ i + 2 <= Len(f.log) => f.log[i + 2].kind = "fetch"
    /\ (f.pc = "done" /\ AllFetches("timeout")) =>
            /\ Cardinality(Fetches) = f.max_retries
            /\ Cardinality(CoolDowns) = f.max_retries - 1
            /\ f.result = [product_name |-> "Timeout", price |-> "NA",
                           availability |-> "Unknown"]

\* Three timeouts with max_retries 3, and the call has ended.
TimeoutRetriedThenGivenUpWitness ==
    /\ f.pc = "done" /\ f.site = "amazon" /\ f.max_retries = DefaultMaxRetries
    /\ AllFetches("timeout") /\ Cardinality(Fetches) = 3

\* C10 (as claimed): for every site handler, a call whose page loads all failed
\* with an error that is no timeout and no challenge ends with the sentinel
\* tagged 'Error', amazon after max_retries loads.
ErrorGiveUpTaggedError ==
    (f.pc = "done" /\ AllFetches("error"))
    => /\ f.result = Sentinel("Error")
       /\ f.site = "amazon" => Cardinality(Fetches) = f.max_retries

\* C11 (as claimed): for amazon, ebay and etsy alike, a page load that fails (a
\* challenge, a timeout or another error) on attempt n below the maximum (3 by
\* default) is followed by a cool-down and by a further page load before the
\* call ends.
MaxAttempts == IF f.site = "amazon" THEN f.max_retries ELSE DefaultMaxRetries
RetryPolicyEverySite ==
    f.pc = "done" =>
        \A i \in Fetches :
            (f.log[i].outcome # "ok" /\ f.log[i].n < MaxAttempts) =>
                /\ \E j \in CoolDowns : j > i
                /\ \E j \in Fetches : j > i

\* C12: when save_to_db has processed a result without a price (a give-up
\* sentinel), the product has an observation for today, and when none was there
\* before, it is the one just written: price null, availability 'Unknown'.
GiveUpPersisted ==
    [][(rows_total' = rows_total + 1 /\ pc'["r1"] = "loop"
          /\ row'["r1"].price = NULL) =>
         /\ \E x \in DOMAIN pricehistory' :
              x.product_id = prod_id'["r1"] /\ x.date = now
         /\ ~existing'["r1"] =>
              /\ [product_id |-> prod_id'["r1"], date |-> now, price |-> NULL,
                  availability |-> "Unknown"] \in DOMAIN pricehistory'
              /\ ~\E x \in DOMAIN pricehistory :
                    x.product_id = prod_id'["r1"] /\ x.date = now]_vars

\* A sentinel was processed on a day without an observation, after a day with a
\* price: the null observation is stored beside the earlier one.
GiveUpPersistedWitness ==
    /\ pc["r1"] = "loop" /\ row["r1"].price = NULL /\ ~existing["r1"]
    /\ prev_row["r1"] # {}
    /\ [product_id |-> prod_id["r1"], date |-> today["r1"], price |-> NULL,
        availability |-> "Unknown"] \in DOMAIN pricehistory

\* C20: there is never more than one product row for a url (nor two rows with one
\* id); and a step of save_to_db keeps the id of every product it finds, the
\* upserted one included, and keeps every observation attached to it.
OneProductPerUrl ==
    /\ [](\A p, q \in product : (p.url = q.url \/ p.id = q.id) => p = q)
    /\ [][/\ \A p \in product : \E q \in product' : q.url = p.url /\ q.id = p.id
          /\ \A x \in DOMAIN pricehistory : x \in DOMAIN pricehistory'
          /\ (rows_total' = rows_total + 1 /\ pc'["r1"] = "loop") =>
                \A p \in product : p.url = row'["r1"].url => prod_id'["r1"] = p.id]_vars

\* A known url was upserted on a later day, beside another product: its earlier
\* observation and today's carry the same product id.
OneProductPerUrlWitness ==
    /\ pc["r1"] = "loop" /\ ~existing["r1"] /\ row["r1"].price # NULL
    /\ Cardinality(product) = 2
    /\ \E x, y \in DOMAIN pricehistory :
         /\ x.product_id = prod_id["r1"] /\ y.product_id = prod_id["r1"]
         /\ x.date < y.date /\ y.date = today["r1"]

\* C16: in no step, of delete_url's cascade or of the reconciliation, committed
\* or failed, does a product row go while an observation of it stays, or an
\* observation go while its product row stays.
AtomicOrphanRemoval ==
    [][/\ \A p \in product :
            (~\E q \in product' : q.id = p.id) =>
                ~\E x \in DOMAIN pricehistory' : x.product_id = p.id
       /\ \A x \in DOMAIN pricehistory :
            x \notin DOMAIN pricehistory' =>
                ~\E q \in product' : q.id = x.product_id]_vars

\* A process has just inserted an observation, and a removal has since emptied
\* both tables.
AtomicOrphanRemovalWitness ==
    \E r \in Runs :
        /\ pc[r] = "alert" /\ ~existing[r]
        /\ product = {} /\ pricehistory = EmptyBag

\* C13: in a batch, every target got from get_urls is fetched, also after a
\* target gave up; and when the batch completes, save_to_db has returned and
\* has processed every target's result, leaving it with an observation.
StepCompletes == b'.n = b.n + 1 /\ b.targets # {}
BatchContainsFailures ==
    /\ [](b.pc \in {"save", "saving"} =>
            /\ b.targets = {b.results[i].url : i \in DOMAIN b.results} \cup b.saved
            /\ Len(b.results) + Cardinality(b.saved) = Cardinality(b.targets))
    /\ [][StepCompletes =>
            /\ ~b'.aborted
            /\ outcome'["r1"] = "returned"
            /\ b'.saved = b.targets]_vars

\* A batch of two targets has completed: one gave up, both were saved, and the
\* other has its price stored.
BatchContainsFailuresWitness ==
    /\ b.pc = "idle" /\ b.n > 0 /\ ~b.aborted
    /\ Cardinality(b.targets) = 2 /\ Cardinality(b.gaveup) = 1
    /\ b.saved = b.targets
    /\ \E p \in product : \E x \in DOMAIN pricehistory :
         p.url \notin b.gaveup /\ x.product_id = p.id /\ x.price # NULL

\* C14 (as claimed): in a batch the reconciliation has ended before the first
\* fetch, and no step appends an observation for a product whose url is not in
\* the registry, also when a target is deleted while the batch runs.
ReconciledBeforeFetch ==
    /\ [](b.pc \in {"fetch", "save", "saving"} => tracked_urls = {"-"})
    /\ [][\A x \in DOMAIN pricehistory' :
            x \notin DOMAIN pricehistory =>
                \E p \in product' : p.id = x.product_id /\ p.url \in tracked']_vars

\* The steps of cleanup_orphaned_data's delete, and the orphans it found.
CleanupStep == tracked_urls # {"-"} /\ tracked_urls' = {"-"}
OrphansFound == {p \in product : p.url \notin tracked_urls}

\* C15: a reconciliation that commits removes the products whose url is not among
\* the tracked urls it read, with all their observations, and leaves every
\* other product row and observation as it was; one that fails changes nothing.
CleanupRemovesExactlyOrphans ==
    [][CleanupStep =>
         \/ product' = product /\ pricehistory' = pricehistory
         \/ /\ product' = {p \in product : p.url \in tracked_urls}
            /\ DOMAIN pricehistory' =
                 {x \in DOMAIN pricehistory :
                    \A p \in OrphansFound : p.id # x.product_id}
            /\ \A x \in DOMAIN pricehistory' : pricehistory'[x] = pricehistory[x]]_vars

\* The reconciliation of a batch removed one product and its observation came
\* with it, while the tracked product and its observation are still there.
CleanupRemovesExactlyOrphansWitness ==
    /\ b.pc = "geturls" /\ Cardinality(b.removed) = 1
    /\ \E p \in product :
         /\ p.url \in tracked
         /\ \E x \in DOMAIN pricehistory : x.product_id = p.id
    /\ \A x \in DOMAIN pricehistory : \E p \in product : p.id = x.product_id

\* C17 (as claimed): when the reconciliation finds several orphans, at most one
\* of them, the one whose deletion failed, is still stored after it.
CleanupContinuesPastFailure ==
    [][(CleanupStep /\ Cardinality(OrphansFound) >= 2) =>
         Cardinality({p \in OrphansFound : \E q \in product' : q.id = p.id}) <= 1]_vars

\* C18: a cascade of delete_url that commits leaves no product row for the url
\* and no observation of that product, and nothing else is changed; and when
\* no other product was orphaned before, none is afterwards: a reconciliation
\* over the remaining registry has nothing to remove.
CascadeStep == del_url # "-" /\ del_url' = "-" /\ product' # product
DeleteUrlRemovesHistory ==
    /\ [][\A u \in URLs : (u \in tracked /\ del_url' = u /\ del_url = "-") =>
            u \notin tracked']_vars
    /\ [][CascadeStep =>
            /\ product' = {p \in product : p.url # del_url}
            /\ \A p \in product : p.url = del_url =>
                 ~\E x \in DOMAIN pricehistory' : x.product_id = p.id
            /\ \A x \in DOMAIN pricehistory :
                 (\A p \in product : p.url = del_url => p.id # x.product_id)
                 => (x \in DOMAIN pricehistory' /\ pricehistory'[x] = pricehistory[x])
            /\ (OrphanedProducts(product, tracked \cup {del_url}) = {}
                  => /\ OrphanedProducts(product', tracked') = {}
                     /\ DeleteHistoryOf(pricehistory',
                            OrphanedProducts(product', tracked')) = pricehistory')]_vars

\* A target saved by the last batch was deleted afterwards: its product and its
\* observation are gone, the other target's are there, and the reconciliation
\* has not run since.
DeleteUrlRemovesHistoryWitness ==
    /\ b.pc = "idle" /\ b.n > 0 /\ del_url = "-"
    /\ \E u \in b.saved :
         /\ u \notin tracked
         /\ ~\E p \in product : p.url = u
    /\ \E p \in product : p.url \in tracked
    /\ Cardinality(DOMAIN pricehistory) = Cardinality(product)

\* C19 (as claimed): when a batch completes, every product that was stored when
\* the batch started with a url missing from the registry has been removed by
\* the batch's reconciliation, none was left.
OrphansGoneAfterBatch ==
    [][(b'.n = b.n + 1 /\ ~b'.aborted) => b'.left = {}]_vars

\* C21 (as claimed): no step replaces the stored name of a product by the tag of
\* a give-up result or by an empty name.
NameKeptOnGiveUp ==
    [][\A p \in product : \A q \in product' :
         (q.id = p.id /\ q.url = p.url /\ q.name # p.name) =>
             q.name \notin GiveUpTags \cup {""}]_vars

\* The alert key of the result save_to_db processed last, and whether that result
\* met the alert condition.
LastKey(r) == AlertKey(prod_id[r], prev_row[r], PriceVal(row[r].price))
LastDrop(r) ==
    /\ pc[r] = "loop"
    /\ row[r] # NoRow
    /\ ShouldAlert(email_enabled[r], prev_row[r], PriceVal(row[r].price))

GetUrlsFailureAborts ==
    /\ [](b.aborted => /\ b.pc = "idle"
                       /\ b.targets = {} /\ b.results = <<>> /\ b.saved = {})
    /\ [][(b'.aborted /\ ~b.aborted) => b.pc = "geturls"]_vars
    /\ [][(b'.pc \in {"cleanup", "geturls"} \/ b'.aborted) =>
            \A x \in DOMAIN pricehistory' :
                x \in DOMAIN pricehistory /\ pricehistory'[x] <= pricehistory[x]]_vars

\* A batch was aborted by get_urls while urls were tracked and observations
\* stored.
GetUrlsFailureAbortsWitness ==
    /\ b.aborted /\ b.pc = "idle" /\ b.n > 0
    /\ tracked # {} /\ DOMAIN pricehistory # {}

\* C24 (as claimed): after save_to_db was stopped at some statement, every stored
\* observation has an availability and every stored product has an observation:
\* no product is stored without the observation of the result that wrote it.
NoHalfPersistedTarget ==
    (pc["r1"] = "idle" /\ outcome["r1"] = "aborted") =>
        /\ \A x \in DOMAIN pricehistory : x.availability # ""
        /\ \A p \in product : \E x \in DOMAIN pricehistory : x.product_id = p.id

\* C25: from every store save_to_db leaves, for every list of results with
\* distinct urls, saving the list in another order, or saving it a second time,
\* leaves the same (url, date, price, availability) observations; and the steps
\* of save_to_db change the tables as RowStored computes.
SaveCommutesAndIsIdempotent ==
    /\ [](pc["r1"] = "idle" =>
          LET st == [product |-> product, pricehistory |-> pricehistory, day |-> now]
          IN  \A U \in SUBSET URLs : \A s1 \in ResultLists(U) :
                LET once == Observations(SaveAll(st, s1))
                IN  /\ Observations(SaveAll(SaveAll(st, s1), s1)) = once
                    /\ \A pi \in Permutations(DOMAIN s1) :
                         Observations(SaveAll(st, [i \in DOMAIN s1 |-> s1[pi[i]]]))
                             = once)
    /\ [][(pc["r1"] = "loop" /\ pc'["r1"] = "getid") =>
            product' = RowStored([product |-> product, pricehistory |-> pricehistory,
                                  day |-> now], row'["r1"]).product]_vars
    /\ [][(pc["r1"] = "insert" /\ pc'["r1"] = "alert") =>
            pricehistory' = RowStored([product |-> product,
                                       pricehistory |-> pricehistory,
                                       day |-> today["r1"]], row["r1"]).pricehistory]_vars

\* A store holding a product with an observation of today and one with none of
\* today, from which a batch over both urls inserts one observation and skips
\* one.
SaveCommutesAndIsIdempotentWitness ==
    /\ pc["r1"] = "idle" /\ outcome["r1"] = "returned"
    /\ \E p \in product : \E x \in DOMAIN pricehistory :
         x.product_id = p.id /\ x.date = now
    /\ \E p \in product : \A x \in DOMAIN pricehistory :
         x.product_id = p.id => x.date < now
    /\ Cardinality(product) = Cardinality(URLs)

\* A run of digits, or a run of digits, a point and a run of digits.
IsDecimalText(t) ==
    \E k \in 1..Len(t) :
        /\ \A i \in 1..k : t[i] \in Digits
        /\ \/ k = Len(t)
           \/ /\ k + 2 <= Len(t) /\ t[k + 1] = "."
              /\ \A i \in (k + 2)..Len(t) : t[i] \in Digits

\* C26: extract_price of every site returns, for every text, the text of a
\* non-negative decimal or 'NA'; it returns 'NA' for the empty text and for a
\* text without a digit.
ExtractReturnsDecimalOrNA ==
    px.pc \in {"returned", "again"} =>
        /\ px.result = NA \/ IsDecimalText(px.result)
        /\ (\A i \in DOMAIN px.text : px.text[i] \notin Digits) => px.result = NA

\* A text with a currency mark and no digit was given and 'NA' returned.
ExtractReturnsDecimalOrNAWitness ==
    /\ px.pc = "returned" /\ px.result = NA
    /\ Has(px.text, "$") /\ Len(px.text) > 1

\* C27 (as claimed): the result is the whole text left after the currency and
\* separator handling, or 'NA': never a part of that text.
NoPartialParse ==
    px.pc = "returned" => px.result \in {NA, px.cleaned}

\* C28: extract_price applied to a result it determined returns that result.
ExtractIdempotent ==
    px.pc = "again" => px.again = px.result

\* A price with a fraction was extracted from a longer text, and extracted again
\* from itself.
ExtractIdempotentWitness ==
    /\ px.pc = "again" /\ px.again = px.result
    /\ Has(px.result, ".") /\ Len(px.text) > Len(px.result)

\* C29: extract_price of every site maps each documented input to its
\* documented result.
DocumentedResults ==
    px.pc = "returned" => \A d \in Documented : px.text = d[1] => px.result = d[2]

\* etsy's extract_price returned 1234567.89 for '$1,234,567.89'.
DocumentedResultsWitness ==
    /\ px.pc = "returned" /\ px.site = "etsy"
    /\ px.text = <<"$", "1", ",", "2", "3", "4", ",", "5", "6", "7", ".", "8", "9">>
    /\ px.result = <<"1", "2", "3", "4", "5", "6", "7", ".", "8", "9">>

\* C30: with cleaned the text after the currency removal: when it holds ',' and
\* '.', every ',' is dropped; when it holds ',' only and is 1 to 3 digits, a
\* comma and 2 digits, the comma becomes a point; when it holds ',' only and is
\* anything else, every ',' is dropped; else it is left as it is.
SeparatorPrecedence ==
    px.pc = "returned" =>
        LET c == px.stripped
            IsComma(ch) == ch = ","
            NotComma(ch) == ch # ","
            european == /\ Len(c) \in 4..6
                        /\ \A i \in DOMAIN c : IF i = Len(c) - 2 THEN c[i] = ","
                                               ELSE c[i] \in Digits
        IN  px.cleaned =
              IF SelectSeq(c, IsComma) = <<>> THEN c
              ELSE IF Has(c, ".") THEN SelectSeq(c, NotComma)
              ELSE IF european THEN [i \in DOMAIN c |-> IF c[i] = "," THEN "." ELSE c[i]]
              ELSE SelectSeq(c, NotComma)

\* '1,234', commas only and three digits after the comma, gave 1234.
SeparatorPrecedenceWitness ==
    /\ px.pc = "returned"
    /\ px.stripped = <<"1", ",", "2", "3", "4">>
    /\ px.result = <<"1", "2", "3", "4">>

\* C31 (as claimed): for every text, the result one site's extract_price
\* returned is the result of every other site's extract_price on that text.
SitesExtractAlike ==
    px.pc = "returned" =>
        \A site \in Sites : extract_price(site, px.text) = px.result

\* C32 (as claimed): the price a handler returns is the normalized price of the
\* first listed strategy that found a determined price, and then the fallback
\* scan was not run; else it is the price the fallback scan found; else it is
\* 'NA'.
FirstStrategyWins ==
    f.pc = "returned" =>
        /\ f.first # NoPrice => (f.price = f.first /\ ~f.scanned)
        /\ (f.first = NoPrice /\ f.found # NoPrice) => f.price = f.found
        /\ (f.first = NoPrice /\ f.found = NoPrice) => f.price = StrPrice(NA)

\* C33 (as claimed): when no availability strategy found a recognised phrase the
\* availability returned is 'Unknown', and when no title strategy succeeded the
\* title returned is 'Unknown Product'.
UnknownWhenNothingFound ==
    f.pc = "returned" =>
        /\ ~f.avail_hit => f.availability = "Unknown"
        /\ ~f.title_hit => f.title = UnknownProduct

\* C34 (as claimed): amazon: after a challenge on an attempt below max_retries,
\* the loop is entered again with a user agent of USER_AGENTS other than the one
\* of the challenged attempt, and the attempt counter has grown by one.
RotatedAfterChallenge ==
    [][(f.site = "amazon" /\ f.pc = "challenge" /\ f.attempt + 1 < f.max_retries) =>
          /\ f'.pc = "loop"
          /\ f'.attempt = f.attempt + 1
          /\ f'.user_agent \in USER_AGENTS \ {f.ua}]_vars

\* The outcome of the last page load of the call.
LastFetch == f.log[CHOOSE i \in Fetches : \A j \in Fetches : j <= i].outcome
ErrorTags == {"Error", "Scraping Error"}

\* C35 (as claimed): amazon, max_retries at least 1: the tag of a give-up
\* sentinel names the failure of the last page load (an error tag for another
\* error), and a call whose page loads failed by challenges only does not end
\* with an error tag.
TagNamesLastFailure ==
    (f.pc = "done" /\ f.site = "amazon" /\ f.result.product_name \in GiveUpTags) =>
        /\ LastFetch = "challenge" => f.result.product_name = "Bot Protection Detected"
        /\ LastFetch = "timeout" => f.result.product_name = "Timeout"
        /\ LastFetch = "error" => f.result.product_name \in ErrorTags
        /\ AllFetches("challenge") => f.result.product_name \notin ErrorTags

\* C36 (as claimed): amazon: a call that has ended made at most max_retries page
\* loads; it returned the extracted fields right after its one successful load,
\* or else a sentinel; and its last step before returning was a page load, not
\* a cool-down.
NoWaitAfterLastAttempt ==
    (f.pc = "done" /\ f.site = "amazon") =>
        /\ Cardinality(Fetches) <= f.max_retries
        /\ f.log[Len(f.log)].kind = "fetch"
        /\ IF f.log[Len(f.log)].outcome = "ok"
           THEN /\ f.result \in Extracted
                /\ \A i \in Fetches : f.log[i].outcome = "ok" => i = Len(f.log)
           ELSE f.result.product_name \in GiveUpTags

\* C37 (as claimed): when a batch completes, every url get_urls listed for it,
\* of any source, is the url of a product with exactly one observation dated
\* today.
EveryTargetObservedToday ==
    [][(b'.n = b.n + 1 /\ ~b'.aborted) =>
         \A u \in b.targets : \E p \in product' :
            /\ p.url = u
            /\ \E x \in DOMAIN pricehistory' :
                 /\ x.product_id = p.id /\ x.date = now /\ pricehistory'[x] = 1
                 /\ \A y \in DOMAIN pricehistory' :
                      (y.product_id = p.id /\ y.date = now) => y = x]_vars

\* C38: save_to_db is append-only on the history: a step of a run leaves every
\* Observation that was stored before it in place, unchanged, whatever its
\* product and date, and what it adds is dated today.
HistoryAppendOnly ==
    [][/\ \A x \in DOMAIN pricehistory :
            x \in DOMAIN pricehistory' /\ pricehistory'[x] = pricehistory[x]
       /\ \A x \in DOMAIN pricehistory' \ DOMAIN pricehistory : x.date = now]_vars

\* A run has added today's Observation of a product beside an earlier one of it.
HistoryAppendOnlyWitness ==
    \E x, y \in DOMAIN pricehistory :
        /\ x.product_id = y.product_id
        /\ x.date < y.date /\ y.date = now
        /\ pc["r1"] = "loop" /\ rows_total > 1

\* C39: every alert that was sent agrees with the stored time series: its new
\* price is the price of the Observation stored for its product on the day of
\* the alert, and its old price is the price of the product's most recent
\* Observation before that day.
AlertNewPriceStored ==
    \A a \in DOMAIN sent : \E x \in DOMAIN pricehistory :
        x.product_id = a.product_id /\ x.date = a.day /\ x.price = a.new_price

AlertOldPriceStored ==
    \A a \in DOMAIN sent :
        \E p \in PreviousObservation(pricehistory, a.product_id, a.day) :
            p.price = a.old_price

AlertsAgreeWithHistory == AlertNewPriceStored /\ AlertOldPriceStored

\* C40: however a run of save_to_db interleaves with delete_url and the
\* reconciliation, every Observation of the history store references a
\* Product row that exists.
HistoryReferencesProduct ==
    \A x \in DOMAIN pricehistory : \E p \in product : p.id = x.product_id

====
